---------------------------- MODULE Spec2Model ----------------------------
(***************************************************************************)
(* Magic Card Gallery (src/script.js): the card records, the card grid of  *)
(* the page, the timers the handlers start, and the handlers themselves.   *)
(*                                                                         *)
(* Objects are kept in heaps: `cards` holds every card record ever made    *)
(* (a reference is an index into it), `nodes` every card element ever made *)
(* by createCardElement.  `grid` is the child list of #card-grid.          *)
(* `timers` holds the pending setTimeout callbacks in creation order, each *)
(* with the time left before it expires, in units of TickMs milliseconds.  *)
(* The page runs on one thread: every handler and every timer callback is  *)
(* one atomic step.  Expired timers run in order of expiry, those expiring *)
(* together in creation order.  User events arrive on the TickMs grid of   *)
(* time, before, between or after the callbacks that expire at that time.  *)
(***************************************************************************)
EXTENDS Integers, Sequences, FiniteSets, TLC

VARIABLES
    clickCounter,       \* line 7
    cardIdCounter,      \* line 8
    isFloatingEnabled,  \* line 9
    cards,              \* heap of card records made by createCardData
    nodes,              \* heap of card elements made by createCardElement
    grid,               \* children of #card-grid: sequence of node references
    timers,             \* pending setTimeout callbacks, in creation order
    page,               \* the other elements the script writes: modal, overlay, counter, button
    projs,              \* history: one entry per renderCards call
    events,             \* history: number of user events / direct calls so far
    hist,               \* history: how many of the user events were Add clicks, how many others
    last                \* history: the step just taken, with what it read and returned

vars == <<clickCounter, cardIdCounter, isFloatingEnabled, cards, nodes, grid,
          timers, page, projs, events, hist, last>>

----------------------------------------------------------------------------
(* Bounds of the model *)

\* initializeApp asks for 6 cards (line 327); the model starts the gallery
\* with InitialCount of them so that the interleavings stay enumerable.
InitialCount == 2
\* user events (clicks, pointer-enters) per behaviour of Spec
MaxEvents == 2
\* Math.random() returns n / RandDen for n in 0 .. RandDen - 1
RandDen == 12
\* of these values, the handlers of the page and the direct calls of
\* generateCardData draw MaxSamples evenly spaced ones
MaxSamples == 2
\* direct calls of generateCardData per behaviour of SpecGenerate
MaxCalls == 2
\* largest count handed to generateCardData in SpecGenerate without and with
\* the random source
MaxCount == 7
MaxRandomCount == 2
\* longest array handed to shuffleArray in SpecShuffle, over elements 1 .. MaxElem
MaxLen == 3
MaxElem == 3
\* getRandomNumber is called in SpecRandom with min and max in
\* -MaxMagnitude .. MaxMagnitude; the widest range, 2 * MaxMagnitude + 1,
\* stays below RandDen, so that the source is finer than the range
MaxMagnitude == 3
\* user events per behaviour of SpecLive
MaxLiveEvents == 1

(* Program constants *)

\* the stagger of renderCards, index * 100 ms (line 351): the unit of time
TickMs == 100
\* cardData.length (lines 10-17)
SeedSize == 6
\* the delays handed to setTimeout, in ms
DefaultDurationMs == 300
FlipMs == 600
CounterMs == 200
LoadingMs == 800
ShuffleMs == 300

Ticks(ms) == ms \div TickMs

Min(a, b) == IF a < b THEN a ELSE b

Range(s) == {s[i] : i \in DOMAIN s}

----------------------------------------------------------------------------
(* Data and utility functions *)

\* lines 10-17.  Icons are named by their code points; a title is the list of
\* the pieces the template literals join with a space.
cardData ==
    << [icon |-> "U+1F52E", title |-> <<"Crystal Ball">>,
        description |-> "Peer into the future with mystical visions"],
       [icon |-> "U+26A1", title |-> <<"Lightning Bolt">>,
        description |-> "Harness the power of electricity"],
       [icon |-> "U+1F31F", title |-> <<"Shooting Star">>,
        description |-> "Make a wish upon celestial magic"],
       [icon |-> "U+1F3AD", title |-> <<"Magic Mask">>,
        description |-> "Transform into anyone you desire"],
       [icon |-> "U+1F5DD", title |-> <<"Skeleton Key">>,
        description |-> "Unlock any door or secret"],
       [icon |-> "U+1F48E", title |-> <<"Enchanted Gem">>,
        description |-> "Grants wisdom and clarity"] >>

\* Math.random(): the numerators n of the values n / RandDen in [0, 1)
RandomSource == 0 .. (RandDen - 1)

\* getRandomNumber with the range taken as max - min: max is never returned
getRandomNumberExclusive(min, max, n) ==
    LET range == max - min
    IN  ((n * range) \div RandDen) + min

\* lines 29-36, for randomDecimal = n / RandDen:
\* Math.floor(randomDecimal * range) + min
getRandomNumber(min, max, n) ==
    LET range == max - min + 1
    IN  ((n * range) \div RandDen) + min

\* the MaxSamples values of the random source the page's handlers draw from
Sampled == {(k * RandDen) \div MaxSamples : k \in 0 .. (MaxSamples - 1)}

\* every result getRandomNumber(min, max) can return when Math.random() draws
\* from source
RandomInts(min, max, source) == {getRandomNumber(min, max, n) : n \in source}

\* createCardData reading the counter without advancing it:
\* `card-${cardIdCounter}`
createCardDataNoIncrement(ctr, icon, title, description) ==
    [card |-> [id |-> <<"card-", ctr>>,
               icon |-> icon,
               title |-> title,
               description |-> description,
               clickCount |-> 0],
     counter |-> ctr]

\* lines 45-59: the record returned and the counter after ++cardIdCounter.
\* createdAt (Date.now()) is never read by the script and is left out.
createCardData(ctr, icon, title, description) ==
    [card |-> [id |-> <<"card-", ctr + 1>>,
               icon |-> icon,
               title |-> title,
               description |-> description,
               clickCount |-> 0],
     counter |-> ctr + 1]

\* the triple of texts a card record or a card element carries
Triple(x) == <<x.icon, x.title, x.description>>

----------------------------------------------------------------------------
(* shuffleArray, lines 66-80 *)

\* lines 74-76, for the 0-based indices i and j of the script
Swap(s, i, j) == [s EXCEPT ![i + 1] = s[j + 1], ![j + 1] = s[i + 1]]

\* the loop of lines 71-77 drawing the swap index below i:
\* getRandomNumber(0, i - 1)
RECURSIVE shuffleLoopBelow(_, _, _)
shuffleLoopBelow(mem, i, source) ==
    IF i > 0
    THEN UNION { shuffleLoopBelow([mem EXCEPT !.shuffled = Swap(mem.shuffled, i, j),
                                              !.js = Append(mem.js, j)], i - 1, source)
                 : j \in RandomInts(0, i - 1, source) }
    ELSE {mem}

\* lines 71-77: the loop from index i down to 1 over the memory
\* mem = [array: the caller's array, shuffled: the private copy, js: the swap
\* indices drawn so far], Math.random() drawing from source.  The value is
\* the set of memories the loop can end in, one per sequence of draws.
RECURSIVE shuffleLoop(_, _, _)
shuffleLoop(mem, i, source) ==
    IF i > 0
    THEN UNION { shuffleLoop([mem EXCEPT !.shuffled = Swap(mem.shuffled, i, j),
                                         !.js = Append(mem.js, j)], i - 1, source)
                 : j \in RandomInts(0, i, source) }
    ELSE {mem}

\* the loop run on the caller's array itself: const shuffled = array
shuffleArrayInPlace(array, source) ==
    { [m EXCEPT !.array = m.shuffled]
      : m \in shuffleLoop([array |-> array, shuffled |-> array, js |-> <<>>],
                          Len(array) - 1, source) }

\* lines 66-80: [...array] is a fresh copy, the loop works on the copy, the
\* copy is returned (field shuffled); field array is the caller's array after
\* the call.
shuffleArray(array, source) ==
    shuffleLoop([array |-> array, shuffled |-> array, js |-> <<>>],
                Len(array) - 1, source)

----------------------------------------------------------------------------
(* generateCardData, lines 88-113 *)

\* Array.prototype.slice(0, end) of line 106
Slice0(s, end) ==
    IF end >= 0
    THEN SubSeq(s, 1, Min(end, Len(s)))
    ELSE SubSeq(s, 1, IF Len(s) + end > 0 THEN Len(s) + end ELSE 0)

\* the loop of lines 95-103 passing randomCard.title on as it is, without the
\* positional suffix
RECURSIVE generateRandomPlainTitle(_, _, _, _)
generateRandomPlainTitle(acc, i, count, source) ==
    IF i < count
    THEN UNION { LET randomCard == cardData[randomIndex + 1]
                     made == createCardData(acc.counter, randomCard.icon,
                                            randomCard.title,
                                            randomCard.description)
                 IN  generateRandomPlainTitle([cards |-> Append(acc.cards, made.card),
                                               counter |-> made.counter],
                                              i + 1, count, source)
                 : randomIndex \in RandomInts(0, Len(cardData) - 1, source) }
    ELSE {acc}

\* lines 95-103: iterations i .. count - 1 of the loop.  acc = [cards, counter]
\* is what has been pushed so far and the value of cardIdCounter; the value is
\* the set of results, one per sequence of draws from source.
RECURSIVE generateRandom(_, _, _, _)
generateRandom(acc, i, count, source) ==
    IF i < count
    THEN UNION { LET randomCard == cardData[randomIndex + 1]
                     made == createCardData(acc.counter, randomCard.icon,
                                            Append(randomCard.title, i + 1),
                                            randomCard.description)
                 IN  generateRandom([cards |-> Append(acc.cards, made.card),
                                     counter |-> made.counter], i + 1, count, source)
                 : randomIndex \in RandomInts(0, Len(cardData) - 1, source) }
    ELSE {acc}

\* lines 107-109: dataToUse.forEach from position k on
RECURSIVE generateSeeded(_, _, _)
generateSeeded(acc, k, dataToUse) ==
    IF k <= Len(dataToUse)
    THEN LET card == dataToUse[k]
             made == createCardData(acc.counter, card.icon, card.title,
                                    card.description)
         IN  generateSeeded([cards |-> Append(acc.cards, made.card),
                             counter |-> made.counter], k + 1, dataToUse)
    ELSE acc

\* generateCardData taking count seed entries by index modulo the seed size
\* instead of slicing the seed set
generateCardDataWrap(ctr, count, useRandomData, source) ==
    IF useRandomData
    THEN generateRandom([cards |-> <<>>, counter |-> ctr], 0, count, source)
    ELSE {generateSeeded([cards |-> <<>>, counter |-> ctr], 1,
                         [k \in 1 .. count |-> cardData[((k - 1) % Len(cardData)) + 1]])}

\* lines 88-113, called with cardIdCounter = ctr, Math.random() drawing from
\* source: the set of possible results
\* [cards: the array returned, counter: cardIdCounter afterwards]
generateCardData(ctr, count, useRandomData, source) ==
    IF useRandomData
    THEN generateRandom([cards |-> <<>>, counter |-> ctr], 0, count, source)
    ELSE {generateSeeded([cards |-> <<>>, counter |-> ctr], 1,
                         Slice0(cardData, count))}

----------------------------------------------------------------------------
(* Card elements *)

\* lines 124-138.  listeners holds, per addCardEventListeners call on the
\* element, the card record its two listeners close over; clicks is history:
\* the click events the element has received.  The three texts are written into the element through the
\* innerHTML template and read back as textContent (lines 434-436); none of
\* the texts of the script holds markup, so each comes back as written.
createCardElement(card) ==
    [cardId |-> card.id,
     classes |-> {"magic-card", "card-enter"},
     icon |-> card.icon,
     title |-> card.title,
     description |-> card.description,
     iconTransform |-> "",
     listeners |-> <<>>,
     clicks |-> 0]

\* lines 430-441: cardElements.map from position k on; acc as in generateSeeded
RECURSIVE getCardDataFromDOMFrom(_, _, _)
getCardDataFromDOMFrom(acc, k, cardElements) ==
    IF k <= Len(cardElements)
    THEN LET card == cardElements[k]
             made == createCardData(acc.counter, card.icon, card.title,
                                    card.description)
         IN  getCardDataFromDOMFrom([cards |-> Append(acc.cards, made.card),
                                     counter |-> made.counter], k + 1, cardElements)
    ELSE acc

\* getCardDataFromDOM rebuilding each record under the id its element carries
\* (dataset.cardId) instead of calling createCardData
getCardDataFromDOMKeepId(ctr, cardElements) ==
    [cards |-> [k \in DOMAIN cardElements |->
                  [id |-> cardElements[k].cardId,
                   icon |-> cardElements[k].icon,
                   title |-> cardElements[k].title,
                   description |-> cardElements[k].description,
                   clickCount |-> 0]],
     counter |-> ctr]

\* lines 430-441, called with cardIdCounter = ctr on a sequence of elements
getCardDataFromDOM(ctr, cardElements) ==
    getCardDataFromDOMFrom([cards |-> <<>>, counter |-> ctr], 1, cardElements)

\* document.querySelectorAll('.magic-card') (lines 201, 372, 381): the
\* references of the attached elements of that class, in document order
MagicCards(ns, g) == SelectSeq(g, LAMBDA n : "magic-card" \in ns[n].classes)

\* the elements behind a sequence of references
Elements(ns, refs) == [k \in DOMAIN refs |-> ns[refs[k]]]

\* the references the heap gives to k records appended to a heap of size n
NewRefs(n, k) == [i \in 1 .. k |-> n + i]

----------------------------------------------------------------------------
(* Timers *)

\* one pending setTimeout callback: what it will do (kind), the time left,
\* and the values its closure holds.  proj and shown are history: the
\* renderCards call an insertion belongs to, and the triples that were
\* displayed when the Shuffle button was clicked.
Timer(kind, ms, node, card, data, proj, shown) ==
    [kind |-> kind, rem |-> Ticks(ms), node |-> node, card |-> card,
     data |-> data, proj |-> proj, shown |-> shown]

Due == {i \in DOMAIN timers : timers[i].rem = 0}

\* the callback the event loop runs next: the oldest of the expired ones
First == CHOOSE i \in Due : \A j \in Due : i <= j

Remove(s, i) == SubSeq(s, 1, i - 1) \o SubSeq(s, i + 1, Len(s))

Inserts(ts) == {i \in DOMAIN ts : ts[i].kind = "insert"}

----------------------------------------------------------------------------
(* renderCards, lines 338-353 *)

\* The effect of renderCards(cardsData) on the element heap ns and the timer
\* list ts; cardsData is a sequence of references into the card heap cs, p the
\* number of this call.  The grid itself is emptied (line 341).
renderCards(ns, ts, cs, cardsData, p) ==
    [grid |-> <<>>,
     nodes |-> ns \o [k \in DOMAIN cardsData |-> createCardElement(cs[cardsData[k]])],
     timers |-> ts \o [k \in DOMAIN cardsData |->
                        Timer("insert", (k - 1) * TickMs, Len(ns) + k,
                              cardsData[k], <<>>, p, <<>>)]]

\* history entry of a renderCards call: who called, the collection passed,
\* the triples displayed when the caller read the grid, and whether no
\* insertion of an earlier call was still pending
Projection(kind, cardsData, shown, ts) ==
    [kind |-> kind, cards |-> cardsData, shown |-> shown,
     clean |-> Inserts(ts) = {}]

\* the triples of the cards displayed in grid g
Shown(ns, g) == [k \in DOMAIN g |-> Triple(ns[g[k]])]

----------------------------------------------------------------------------
(* The elements of the page the script writes besides the grid.  The page  *)
(* itself is not part of the script: the modal starts closed, the loading  *)
(* overlay hidden, the counter at 0.                                       *)

InitialPage ==
    [modalShown |-> FALSE,
     modalTitle |-> <<>>,
     modalDescription |-> <<>>,
     overlayHidden |-> TRUE,
     counterText |-> 0,
     counterTransform |-> "",
     counterColor |-> "",
     toggleText |-> ""]

\* lines 325-332, run by the DOMContentLoaded listener (lines 449-455)
Init ==
    LET initialCards == CHOOSE g \in generateCardData(0, InitialCount, FALSE, Sampled) : TRUE
        refs == NewRefs(0, Len(initialCards.cards))
        r == renderCards(<<>>, <<>>, initialCards.cards, refs, 1)
    IN  /\ clickCounter = 0
        /\ cardIdCounter = initialCards.counter
        /\ isFloatingEnabled = FALSE
        /\ cards = initialCards.cards
        /\ nodes = r.nodes
        /\ grid = r.grid
        /\ timers = r.timers
        /\ page = InitialPage
        /\ projs = <<Projection("init", refs, <<>>, <<>>)>>
        /\ events = 0
        /\ hist = [adds |-> 0, others |-> 0]
        /\ last = [op |-> "init", completed |-> IF refs = <<>> THEN 1 ELSE 0]

----------------------------------------------------------------------------
(* Animation, modal and click handling.  st is the part of the state a     *)
(* handler works on: [clickCounter, cards, nodes, timers, page].           *)

\* animateElement whose 'shake' case adds the class and never removes it
animateElementShakeStays(st, n, animationType, duration) ==
    CASE animationType = "bounce" ->
            [st EXCEPT !.nodes[n].iconTransform = "scale(1.2)",
                       !.timers = Append(@, Timer("bounce", duration, n, 0, <<>>, 0, <<>>))]
      [] animationType = "shake" ->
            [st EXCEPT !.nodes[n].classes = @ \cup {"shuffle-animation"}]
      [] animationType = "flip" ->
            [st EXCEPT !.nodes[n].classes = @ \cup {"clicked"},
                       !.timers = Append(@, Timer("flip", FlipMs, n, 0, <<>>, 0, <<>>))]
      [] OTHER -> st

\* lines 168-192; element n stands for the card element or, for 'bounce',
\* for its .card-icon child
animateElement(st, n, animationType, duration) ==
    CASE animationType = "bounce" ->
            [st EXCEPT !.nodes[n].iconTransform = "scale(1.2)",
                       !.timers = Append(@, Timer("bounce", duration, n, 0, <<>>, 0, <<>>))]
      [] animationType = "shake" ->
            [st EXCEPT !.nodes[n].classes = @ \cup {"shuffle-animation"},
                       !.timers = Append(@, Timer("shake", duration, n, 0, <<>>, 0, <<>>))]
      [] animationType = "flip" ->
            [st EXCEPT !.nodes[n].classes = @ \cup {"clicked"},
                       !.timers = Append(@, Timer("flip", FlipMs, n, 0, <<>>, 0, <<>>))]
      [] OTHER -> st

\* lines 249-264
updateClickCounter(st, count) ==
    [st EXCEPT !.page.counterText = count,
               !.page.counterTransform = "scale(1.2)",
               !.page.counterColor = "#4ecdc4",
               !.timers = Append(@, Timer("counter", CounterMs, 0, 0, <<>>, 0, <<>>))]

\* lines 270-282
showModal(pg, card) ==
    [pg EXCEPT !.modalTitle = <<card.icon, card.title>>,
               !.modalDescription = <<card.description, "Clicked", card.clickCount, "times">>,
               !.modalShown = TRUE]

\* hideModal flipping the class instead of removing it:
\* modal.classList.toggle('show')
hideModalToggle(pg) == [pg EXCEPT !.modalShown = ~@]

\* lines 287-291
hideModal(pg) == [pg EXCEPT !.modalShown = FALSE]

\* handleCardClick opening the modal before it counts the click
handleCardClickModalFirst(st, n, c) ==
    LET s1 == [st EXCEPT !.clickCounter = @ + 1]
        s2 == updateClickCounter(s1, s1.clickCounter)
        s3 == animateElement(s2, n, "flip", DefaultDurationMs)
        s4 == [s3 EXCEPT !.page = showModal(@, s3.cards[c])]
    IN  [s4 EXCEPT !.cards[c].clickCount = @ + 1]

\* handleCardClick without cardData.clickCount++
handleCardClickNoCardCount(st, n, c) ==
    LET s1 == [st EXCEPT !.clickCounter = @ + 1]
        s2 == updateClickCounter(s1, s1.clickCounter)
        s3 == animateElement(s2, n, "flip", DefaultDurationMs)
    IN  [s3 EXCEPT !.page = showModal(@, s3.cards[c])]

\* handleCardClick taking the global counter from the clicked card's own
\* count: clickCounter = cardData.clickCount + 1
handleCardClickPerCard(st, n, c) ==
    LET s1 == [st EXCEPT !.clickCounter = st.cards[c].clickCount + 1]
        s2 == updateClickCounter(s1, s1.clickCounter)
        s3 == animateElement(s2, n, "flip", DefaultDurationMs)
        s4 == [s3 EXCEPT !.cards[c].clickCount = @ + 1]
    IN  [s4 EXCEPT !.page = showModal(@, s4.cards[c])]

\* handleCardClick moving the clicked card to the end of the grid once the
\* click is handled: setTimeout(() => cardGrid.appendChild(cardElement), 0)
handleCardClickReinsert(st, n, c) ==
    LET s1 == [st EXCEPT !.clickCounter = @ + 1]
        s2 == updateClickCounter(s1, s1.clickCounter)
        s3 == animateElement(s2, n, "flip", DefaultDurationMs)
        s4 == [s3 EXCEPT !.cards[c].clickCount = @ + 1]
        s5 == [s4 EXCEPT !.page = showModal(@, s4.cards[c])]
    IN  [s5 EXCEPT !.timers = Append(@, Timer("insert", 0, n, c, <<>>, 0, <<>>))]

\* lines 230-243: the click on element n whose listener holds card record c
handleCardClick(st, n, c) ==
    LET s1 == [st EXCEPT !.clickCounter = @ + 1]
        s2 == updateClickCounter(s1, s1.clickCounter)
        s3 == animateElement(s2, n, "flip", DefaultDurationMs)
        s4 == [s3 EXCEPT !.cards[c].clickCount = @ + 1]
    IN  [s4 EXCEPT !.page = showModal(@, s4.cards[c])]

\* lines 147-149: the click listeners of element n, run in the order they
\* were added, from the k-th on
RECURSIVE DispatchClick(_, _, _)
DispatchClick(st, n, k) ==
    IF k <= Len(st.nodes[n].listeners)
    THEN DispatchClick(handleCardClick(st, n, st.nodes[n].listeners[k]), n, k + 1)
    ELSE st

\* lines 151-155: the mouseenter listeners of element n, from the k-th on
RECURSIVE DispatchMouseEnter(_, _, _)
DispatchMouseEnter(st, n, k) ==
    IF k <= Len(st.nodes[n].listeners)
    THEN DispatchMouseEnter(animateElement(st, n, "bounce", DefaultDurationMs), n, k + 1)
    ELSE st

HandlerState ==
    [clickCounter |-> clickCounter, cards |-> cards, nodes |-> nodes,
     timers |-> timers, page |-> page]

----------------------------------------------------------------------------
(* toggleFloatingAnimation, lines 199-219 *)

\* force is <<>> for null and <<b>> for the boolean b
Null == <<>>

\* classList.toggle(className) and classList.toggle(className, force)
ClassToggle(classes, className, force) ==
    IF force # Null
    THEN IF force[1] THEN classes \cup {className} ELSE classes \ {className}
    ELSE IF className \in classes THEN classes \ {className}
                                  ELSE classes \cup {className}

\* toggleFloatingAnimation testing force for truth instead of for null:
\* a forced false toggles
toggleFloatingAnimationTruthy(ns, g, flag, className, force) ==
    LET cs == Range(MagicCards(ns, g))
        forced == force # Null /\ force[1]
        newFlag == IF forced THEN TRUE ELSE ~flag
    IN  [nodes |-> [n \in DOMAIN ns |->
                      IF n \in cs
                      THEN [ns[n] EXCEPT !.classes =
                              ClassToggle(@, className, IF forced THEN force ELSE Null)]
                      ELSE ns[n]],
         flag |-> newFlag,
         ret |-> newFlag]

\* lines 199-219 on the element heap ns, the grid g and isFloatingEnabled =
\* flag: the heap and the flag afterwards, and the value returned
toggleFloatingAnimation(ns, g, flag, className, force) ==
    LET cs == Range(MagicCards(ns, g))
        newFlag == IF force # Null THEN force[1] ELSE ~flag
    IN  [nodes |-> [n \in DOMAIN ns |->
                      IF n \in cs
                      THEN [ns[n] EXCEPT !.classes = ClassToggle(@, className, force)]
                      ELSE ns[n]],
         flag |-> newFlag,
         ret |-> newFlag]

----------------------------------------------------------------------------
(* Timer callbacks *)

\* time passes: nothing has expired, every pending timer gets TickMs closer
Tick ==
    /\ timers # <<>>
    /\ Due = {}
    /\ timers' = [i \in DOMAIN timers |-> [timers[i] EXCEPT !.rem = @ - 1]]
    /\ last' = [op |-> "tick", completed |-> 0]
    /\ UNCHANGED <<clickCounter, cardIdCounter, isFloatingEnabled, cards, nodes,
                   grid, page, projs, events, hist>>

\* lines 348-351: the staggered insertion of one card element.  appendChild
\* moves an element that is already a child to the end.
FireInsert ==
    /\ Due # {}
    /\ LET t == timers[First]
           rest == Remove(timers, First)
       IN  /\ t.kind = "insert"
           /\ grid' = Append(SelectSeq(grid, LAMBDA n : n # t.node), t.node)
           /\ nodes' = [nodes EXCEPT ![t.node].listeners = Append(@, t.card)]
           /\ timers' = rest
           /\ last' = [op |-> "insert", proj |-> t.proj,
                       completed |-> IF \E i \in Inserts(rest) : rest[i].proj = t.proj
                                     THEN 0 ELSE t.proj]
    /\ UNCHANGED <<clickCounter, cardIdCounter, isFloatingEnabled, cards, page,
                   projs, events, hist>>

\* lines 173-175
FireBounce ==
    /\ Due # {}
    /\ LET t == timers[First]
       IN  /\ t.kind = "bounce"
           /\ nodes' = [nodes EXCEPT ![t.node].iconTransform = "scale(1)"]
           /\ timers' = Remove(timers, First)
    /\ last' = [op |-> "bounceEnd", completed |-> 0]
    /\ UNCHANGED <<clickCounter, cardIdCounter, isFloatingEnabled, cards, grid,
                   page, projs, events, hist>>

\* lines 180-182
FireShake ==
    /\ Due # {}
    /\ LET t == timers[First]
       IN  /\ t.kind = "shake"
           /\ nodes' = [nodes EXCEPT ![t.node].classes = @ \ {"shuffle-animation"}]
           /\ timers' = Remove(timers, First)
    /\ last' = [op |-> "shakeEnd", completed |-> 0]
    /\ UNCHANGED <<clickCounter, cardIdCounter, isFloatingEnabled, cards, grid,
                   page, projs, events, hist>>

\* lines 187-189
FireFlip ==
    /\ Due # {}
    /\ LET t == timers[First]
       IN  /\ t.kind = "flip"
           /\ nodes' = [nodes EXCEPT ![t.node].classes = @ \ {"clicked"}]
           /\ timers' = Remove(timers, First)
    /\ last' = [op |-> "flipEnd", completed |-> 0]
    /\ UNCHANGED <<clickCounter, cardIdCounter, isFloatingEnabled, cards, grid,
                   page, projs, events, hist>>

\* lines 259-262
FireCounter ==
    /\ Due # {}
    /\ timers[First].kind = "counter"
    /\ page' = [page EXCEPT !.counterTransform = "scale(1)",
                            !.counterColor = "inherit"]
    /\ timers' = Remove(timers, First)
    /\ last' = [op |-> "counterEnd", completed |-> 0]
    /\ UNCHANGED <<clickCounter, cardIdCounter, isFloatingEnabled, cards, nodes,
                   grid, projs, events, hist>>

\* lines 311-314, and the rest of the Add handler (lines 370-375), which the
\* resolved promise resumes before any other callback runs
FireLoading ==
    /\ Due # {}
    /\ timers[First].kind = "loading"
    /\ \E newCards \in generateCardData(cardIdCounter, 1, TRUE, Sampled) :
         LET existingCards == MagicCards(nodes, grid)
             fromDOM == getCardDataFromDOM(newCards.counter,
                                           Elements(nodes, existingCards))
             heap == cards \o newCards.cards \o fromDOM.cards
             newRefs == NewRefs(Len(cards), Len(newCards.cards))
             domRefs == NewRefs(Len(cards) + Len(newCards.cards), Len(fromDOM.cards))
             rest == Remove(timers, First)
             p == Len(projs) + 1
             r == renderCards(nodes, rest, heap, domRefs \o newRefs, p)
         IN  /\ page' = [page EXCEPT !.overlayHidden = TRUE]
             /\ cards' = heap
             /\ cardIdCounter' = fromDOM.counter
             /\ grid' = r.grid
             /\ nodes' = r.nodes
             /\ timers' = r.timers
             /\ projs' = Append(projs, Projection("add", domRefs \o newRefs,
                                                  Shown(nodes, existingCards), rest))
             /\ last' = [op |-> "addRender", completed |-> 0,
                         read |-> [elements |-> existingCards, out |-> domRefs,
                                   proj |-> Len(projs),
                                   complete |-> Inserts(rest) = {}]]
    /\ UNCHANGED <<clickCounter, isFloatingEnabled, events, hist>>

\* lines 391-393
FireShuffle ==
    /\ Due # {}
    /\ LET t == timers[First]
           rest == Remove(timers, First)
           p == Len(projs) + 1
           r == renderCards(nodes, rest, cards, t.data, p)
       IN  /\ t.kind = "shuffle"
           /\ grid' = r.grid
           /\ nodes' = r.nodes
           /\ timers' = r.timers
           /\ projs' = Append(projs, Projection("shuffle", t.data, t.shown, rest))
           /\ last' = [op |-> "shuffleRender",
                       completed |-> IF t.data = <<>> THEN p ELSE 0]
    /\ UNCHANGED <<clickCounter, cardIdCounter, isFloatingEnabled, cards, page,
                   events, hist>>

----------------------------------------------------------------------------
(* User events, lines 358-423 and 145-156 *)

Other == [hist EXCEPT !.others = @ + 1]

\* lines 367-368, up to the await: showLoadingAnimation(800), lines 302-316
AddClick ==
    /\ events < MaxEvents
    /\ page' = [page EXCEPT !.overlayHidden = FALSE]
    /\ timers' = Append(timers, Timer("loading", LoadingMs, 0, 0, <<>>, 0, <<>>))
    /\ events' = events + 1
    /\ hist' = [hist EXCEPT !.adds = @ + 1]
    /\ last' = [op |-> "addClick", completed |-> 0]
    /\ UNCHANGED <<clickCounter, cardIdCounter, isFloatingEnabled, cards, nodes,
                   grid, projs>>

\* lines 386-388: existingCards.forEach from position k on
RECURSIVE ShakeAll(_, _, _)
ShakeAll(st, existingCards, k) ==
    IF k <= Len(existingCards)
    THEN ShakeAll(animateElement(st, existingCards[k], "shake", DefaultDurationMs),
                  existingCards, k + 1)
    ELSE st

\* lines 379-394
ShuffleClick ==
    /\ events < MaxEvents
    /\ LET existingCards == MagicCards(nodes, grid)
           cardDataArray == getCardDataFromDOM(cardIdCounter,
                                               Elements(nodes, existingCards))
           refs == NewRefs(Len(cards), Len(cardDataArray.cards))
       IN  \E m \in shuffleArray(refs, Sampled) :
             LET shaken == ShakeAll(HandlerState, existingCards, 1)
             IN  /\ cards' = cards \o cardDataArray.cards
                 /\ cardIdCounter' = cardDataArray.counter
                 /\ nodes' = shaken.nodes
                 /\ timers' = Append(shaken.timers,
                                     Timer("shuffle", ShuffleMs, 0, 0, m.shuffled, 0,
                                           Shown(nodes, existingCards)))
                 /\ last' = [op |-> "shuffleClick", completed |-> 0,
                             read |-> [elements |-> existingCards, out |-> refs,
                                       proj |-> Len(projs),
                                       complete |-> Inserts(timers) = {}]]
    /\ events' = events + 1
    /\ hist' = Other
    /\ UNCHANGED <<clickCounter, isFloatingEnabled, grid, page, projs>>

\* lines 397-402
ToggleClick ==
    /\ events < MaxEvents
    /\ LET r == toggleFloatingAnimation(nodes, grid, isFloatingEnabled, "floating", Null)
       IN  /\ nodes' = r.nodes
           /\ isFloatingEnabled' = r.flag
           /\ page' = [page EXCEPT !.toggleText =
                          IF r.ret THEN "Stop Floating" ELSE "Start Floating"]
           /\ last' = [op |-> "toggleClick", completed |-> 0,
                       pre |-> isFloatingEnabled, ret |-> r.ret]
    /\ events' = events + 1
    /\ hist' = Other
    /\ UNCHANGED <<clickCounter, cardIdCounter, cards, grid, timers, projs>>

\* a click on the displayed card element at position pos (lines 147-149)
Inspect(pos) ==
    /\ events < MaxEvents
    /\ LET n == grid[pos]
           st == DispatchClick(HandlerState, n, 1)
       IN  /\ clickCounter' = st.clickCounter
           /\ cards' = st.cards
           /\ nodes' = [st.nodes EXCEPT ![n].clicks = @ + 1]
           /\ timers' = st.timers
           /\ page' = st.page
           /\ last' = [op |-> "inspect", completed |-> 0, node |-> n,
                       pre |-> [clickCounter |-> clickCounter, cards |-> cards]]
    /\ events' = events + 1
    /\ hist' = Other
    /\ UNCHANGED <<cardIdCounter, isFloatingEnabled, grid, projs>>

\* the pointer enters the displayed card element at position pos (lines 151-155)
MouseEnter(pos) ==
    /\ events < MaxEvents
    /\ LET st == DispatchMouseEnter(HandlerState, grid[pos], 1)
       IN  /\ nodes' = st.nodes
           /\ timers' = st.timers
    /\ events' = events + 1
    /\ hist' = Other
    /\ last' = [op |-> "mouseEnter", completed |-> 0]
    /\ UNCHANGED <<clickCounter, cardIdCounter, isFloatingEnabled, cards, grid,
                   page, projs>>

\* line 405
CloseClick ==
    /\ events < MaxEvents
    /\ page' = hideModal(page)
    /\ events' = events + 1
    /\ hist' = Other
    /\ last' = [op |-> "close", completed |-> 0]
    /\ UNCHANGED <<clickCounter, cardIdCounter, isFloatingEnabled, cards, nodes,
                   grid, timers, projs>>

\* line 410
magicEffects ==
    <<"Sparkles appear!", "Stars align!", "Lightning strikes!", "Vision granted!">>

\* lines 408-415; the alert leaves nothing behind but what the user saw
ModalActionClick ==
    /\ events < MaxEvents
    /\ \E k \in RandomInts(0, Len(magicEffects) - 1, Sampled) :
         last' = [op |-> "modalAction", completed |-> 0,
                  alert |-> magicEffects[k + 1]]
    /\ page' = hideModal(page)
    /\ events' = events + 1
    /\ hist' = Other
    /\ UNCHANGED <<clickCounter, cardIdCounter, isFloatingEnabled, cards, nodes,
                   grid, timers, projs>>

\* lines 418-422: a click that reaches #card-modal, on the modal itself
\* (the backdrop) or on something inside it
ModalClick(target) ==
    /\ events < MaxEvents
    /\ page' = IF target = "card-modal" THEN hideModal(page) ELSE page
    /\ events' = events + 1
    /\ hist' = Other
    /\ last' = [op |-> "modalClick", completed |-> 0, target |-> target]
    /\ UNCHANGED <<clickCounter, cardIdCounter, isFloatingEnabled, cards, nodes,
                   grid, timers, projs>>

Next ==
    \/ Tick
    \/ FireInsert
    \/ FireBounce
    \/ FireShake
    \/ FireFlip
    \/ FireCounter
    \/ FireLoading
    \/ FireShuffle
    \/ AddClick
    \/ ShuffleClick
    \/ ToggleClick
    \/ \E pos \in DOMAIN grid : Inspect(pos)
    \/ \E pos \in DOMAIN grid : MouseEnter(pos)
    \/ CloseClick
    \/ ModalActionClick
    \/ \E target \in {"card-modal", "modal-content"} : ModalClick(target)

Spec == Init /\ [][Next]_vars

\* the event loop at work: time passes while timers are pending, and an
\* expired timer's callback runs
TimerStep ==
    \/ Tick
    \/ FireInsert
    \/ FireBounce
    \/ FireShake
    \/ FireFlip
    \/ FireCounter
    \/ FireLoading
    \/ FireShuffle

\* the steps of the page with at most MaxLiveEvents user events
NextLive ==
    \/ TimerStep
    \/ events < MaxLiveEvents /\ AddClick
    \/ events < MaxLiveEvents /\ ShuffleClick
    \/ events < MaxLiveEvents /\ ToggleClick
    \/ events < MaxLiveEvents /\ \E pos \in DOMAIN grid : Inspect(pos)
    \/ events < MaxLiveEvents /\ \E pos \in DOMAIN grid : MouseEnter(pos)
    \/ events < MaxLiveEvents /\ CloseClick
    \/ events < MaxLiveEvents /\ ModalActionClick
    \/ events < MaxLiveEvents /\ \E target \in {"card-modal", "modal-content"} : ModalClick(target)

\* the page under a browser that keeps its event loop running: a pending
\* timer is not left pending for ever.  No fairness on the user's events.
SpecLive == Init /\ [][NextLive]_vars /\ WF_vars(TimerStep)

----------------------------------------------------------------------------
(* The functions called directly, as a test or another script would call   *)
(* them on the loaded page, with any arguments from the bounded sets.      *)

BoundedArrays == UNION {[1 .. n -> 1 .. MaxElem] : n \in 0 .. MaxLen}

\* shuffleArray(array), lines 66-80, over the whole random source.  The
\* function reads and writes nothing but its argument and its copy: one call
\* per behaviour covers it.
CallShuffle ==
    /\ events = 0
    /\ \E array \in BoundedArrays :
         \E m \in shuffleArray(array, RandomSource) :
           last' = [op |-> "shuffleArray", completed |-> 0, input |-> array,
                    array |-> m.array, ret |-> m.shuffled, js |-> m.js]
    /\ events' = events + 1
    /\ UNCHANGED <<clickCounter, cardIdCounter, isFloatingEnabled, cards, nodes,
                   grid, timers, page, projs, hist>>

SpecShuffle == Init /\ [][CallShuffle]_vars

\* getRandomNumber(min, max), lines 29-36, for every min <= max of the bounded
\* set and every value of the random source
CallRandom ==
    /\ events = 0
    /\ \E min \in (0 - MaxMagnitude) .. MaxMagnitude :
         \E max \in min .. MaxMagnitude :
           \E n \in RandomSource :
             last' = [op |-> "getRandomNumber", completed |-> 0, min |-> min,
                      max |-> max, n |-> n, ret |-> getRandomNumber(min, max, n)]
    /\ events' = events + 1
    /\ UNCHANGED <<clickCounter, cardIdCounter, isFloatingEnabled, cards, nodes,
                   grid, timers, page, projs, hist>>

SpecRandom == Init /\ [][CallRandom]_vars

\* generateCardData(count, useRandomData), lines 88-113
CallGenerate ==
    /\ events < MaxCalls
    /\ \E useRandomData \in BOOLEAN :
         \E count \in 0 .. (IF useRandomData THEN MaxRandomCount ELSE MaxCount) :
           \E g \in generateCardData(cardIdCounter, count, useRandomData, Sampled) :
             /\ cards' = cards \o g.cards
             /\ cardIdCounter' = g.counter
             /\ last' = [op |-> "generateCardData", completed |-> 0,
                         count |-> count, useRandomData |-> useRandomData,
                         ret |-> NewRefs(Len(cards), Len(g.cards))]
    /\ events' = events + 1
    /\ UNCHANGED <<clickCounter, isFloatingEnabled, nodes, grid, timers, page,
                   projs, hist>>

SpecGenerate == Init /\ [][CallGenerate]_vars

\* toggleFloatingAnimation('floating', force), lines 199-219
CallToggle ==
    /\ \E force \in {Null, <<TRUE>>, <<FALSE>>} :
         LET r == toggleFloatingAnimation(nodes, grid, isFloatingEnabled, "floating", force)
             wasToggle == last.op = "toggleFloatingAnimation"
         IN  /\ nodes' = r.nodes
             /\ isFloatingEnabled' = r.flag
             /\ last' = [op |-> "toggleFloatingAnimation", completed |-> 0,
                         force |-> force, pre |-> isFloatingEnabled, ret |-> r.ret,
                         prev |-> [toggle |-> wasToggle,
                                   force |-> IF wasToggle THEN last.force ELSE Null,
                                   pre |-> IF wasToggle THEN last.pre ELSE FALSE]]
    /\ UNCHANGED <<clickCounter, cardIdCounter, cards, grid, timers, page, projs,
                   events, hist>>

\* the calls of toggleFloatingAnimation at any moment of the initial staggered
\* insertion or after it
NextToggle ==
    \/ Tick
    \/ FireInsert
    \/ CallToggle

SpecToggle == Init /\ [][NextToggle]_vars

----------------------------------------------------------------------------
(* Properties *)

Count(s, x) == Cardinality({i \in DOMAIN s : s[i] = x})

SameMultiset(s, t) ==
    /\ Len(s) = Len(t)
    /\ \A x \in Range(s) \cup Range(t) : Count(s, x) = Count(t, x)

\* the card ids carried by the displayed elements, in display order
GridIds == [k \in DOMAIN grid |-> nodes[grid[k]].cardId]

\* the ids of the collection passed to the p-th renderCards call
ProjIds(p) == [k \in DOMAIN projs[p].cards |-> cards[projs[p].cards[k]].id]

\* the p-th renderCards call has no insertion left to run
Completed(p) == \A i \in Inserts(timers) : timers[i].proj # p

\* the renderCards call that made the displayed element n
NodeProj(n) ==
    CHOOSE p \in DOMAIN projs :
        \E k \in DOMAIN projs[p].cards : projs[p].cards[k] = nodes[n].listeners[1]

\* C1: once every insertion of the most recent renderCards call has run, the
\* grid holds exactly the cards of the collection passed to that call, one
\* element per card, in collection order, and nothing of an earlier call.
C1_GridIsLatestProjection ==
    Completed(Len(projs)) => GridIds = ProjIds(Len(projs))

\* C2: every Add projects the cards displayed at read-back followed by one
\* newly generated card; and with no timer pending after k Add clicks and no
\* other user event, the grid shows InitialCount + k cards, the initial ones
\* first and in their order.
C2_AddAppendsOne ==
    /\ \A p \in DOMAIN projs :
         projs[p].kind = "add" =>
           LET c == projs[p].cards
               n == Len(projs[p].shown)
           IN  /\ Len(c) = n + 1
               /\ \A k \in 1 .. n : Triple(cards[c[k]]) = projs[p].shown[k]
               /\ \E e \in DOMAIN cardData :
                    Triple(cards[c[n + 1]]) =
                      <<cardData[e].icon, Append(cardData[e].title, 1),
                        cardData[e].description>>
    /\ (timers = <<>> /\ hist.others = 0) =>
         /\ Len(grid) = InitialCount + hist.adds
         /\ \A k \in 1 .. InitialCount : Triple(nodes[grid[k]]) = Triple(cardData[k])

\* C3: when the projection of a Shuffle completes, the grid shows the same
\* multiset of triples (hence the same number of cards) as was displayed when
\* the Shuffle button was clicked.
C3_ShufflePermutes ==
    IF last.completed # 0
    THEN projs[last.completed].kind = "shuffle" =>
           SameMultiset(Shown(nodes, grid), projs[last.completed].shown)
    ELSE TRUE

\* C9: every displayed card element carries the class 'floating' if and only
\* if isFloatingEnabled is true.
C9_FloatingUniform ==
    \A k \in DOMAIN grid :
        ("floating" \in nodes[grid[k]].classes) <=> isFloatingEnabled

\* C4: shuffleArray returns a sequence of the same length and with the same
\* multiset of elements as its input, whatever the swap indices drawn, and
\* leaves the caller's array as it was.
C4_ShuffleIsPermutationOfCopy ==
    last.op = "shuffleArray" =>
        /\ Len(last.ret) = Len(last.input)
        /\ SameMultiset(last.ret, last.input)
        /\ last.array = last.input

\* a shuffle of an array with a repeated element that moved something
C4_Witness ==
    /\ last.op = "shuffleArray"
    /\ last.ret # last.input
    /\ Len(last.input) = MaxLen
    /\ Cardinality(Range(last.input)) < Len(last.input)

\* C5: generateCardData(count, false) returns min(count, 6) cards carrying the
\* first seed entries in order, each with clickCount 0 and an id no other
\* record ever made carries.
C5_SeededGeneration ==
    (last.op = "generateCardData" /\ ~last.useRandomData) =>
        /\ Len(last.ret) = Min(last.count, SeedSize)
        /\ \A k \in DOMAIN last.ret :
             /\ Triple(cards[last.ret[k]]) = Triple(cardData[k])
             /\ cards[last.ret[k]].clickCount = 0
             /\ \A j \in DOMAIN cards :
                  j # last.ret[k] => cards[j].id # cards[last.ret[k]].id

\* a seeded generation asked for more cards than the seed set holds, after
\* another generation
C5_Witness ==
    /\ last.op = "generateCardData"
    /\ ~last.useRandomData
    /\ last.count > SeedSize
    /\ events = MaxCalls

\* C6: when getCardDataFromDOM reads the grid after a renderCards call that
\* started with no insertion pending has run all its insertions, the records
\* it returns carry the triples of the rendered collection in the same order,
\* each under an id other than the rendered card's and with clickCount 0.
C6_LossyRoundTrip ==
    IF last.op \in {"shuffleClick", "addRender"}
    THEN (last.read.complete /\ projs[last.read.proj].clean) =>
           LET src == projs[last.read.proj].cards
               out == last.read.out
           IN  /\ Len(out) = Len(src)
               /\ \A k \in DOMAIN out :
                    /\ Triple(cards[out[k]]) = Triple(cards[src[k]])
                    /\ cards[out[k]].id # cards[src[k]].id
                    /\ cards[out[k]].clickCount = 0
    ELSE TRUE

\* a read-back of a completely rendered collection one of whose cards has
\* been clicked
C6_Witness ==
    /\ last.op \in {"shuffleClick", "addRender"}
    /\ last.read.complete
    /\ projs[last.read.proj].clean
    /\ Len(last.read.out) = InitialCount
    /\ \E k \in DOMAIN projs[last.read.proj].cards :
         cards[projs[last.read.proj].cards[k]].clickCount > 0

\* C7: an Inspect raises clickCounter by one and by one the clickCount of the
\* record rendered into the clicked element, and the modal shows that record
\* with its new clickCount; a displayed element clicked k times since it was
\* rendered has a record with clickCount k.
C7_InspectCounts ==
    /\ last.op = "inspect" =>
         LET n == last.node
             c == nodes[n].listeners[1]
         IN  /\ Len(nodes[n].listeners) = 1
             /\ cards[c].id = nodes[n].cardId
             /\ clickCounter = last.pre.clickCounter + 1
             /\ page.counterText = clickCounter
             /\ cards[c].clickCount = last.pre.cards[c].clickCount + 1
             /\ \A d \in DOMAIN cards :
                  d # c => cards[d].clickCount = last.pre.cards[d].clickCount
             /\ page.modalShown
             /\ page.modalTitle = <<cards[c].icon, cards[c].title>>
             /\ page.modalDescription =
                  <<cards[c].description, "Clicked", cards[c].clickCount, "times">>
    /\ \A k \in DOMAIN grid :
         cards[nodes[grid[k]].listeners[1]].clickCount = nodes[grid[k]].clicks

\* the second Inspect in a row of the same displayed element
C7_Witness ==
    /\ last.op = "inspect"
    /\ nodes[last.node].clicks = 2
    /\ clickCounter = 2

\* C8: toggleFloatingAnimation returns the new isFloatingEnabled; with a
\* forced boolean that is the forced value; two calls in a row without one
\* bring isFloatingEnabled back to what it was.
C8_ToggleTwiceAndForce ==
    last.op = "toggleFloatingAnimation" =>
        /\ last.ret = isFloatingEnabled
        /\ last.force # Null => isFloatingEnabled = last.force[1]
        /\ last.force = Null => isFloatingEnabled = ~last.pre
        /\ (last.force = Null /\ last.prev.toggle /\ last.prev.force = Null) =>
             isFloatingEnabled = last.prev.pre

\* a call forcing false, right after an unforced call that turned floating on
C8_Witness ==
    /\ last.op = "toggleFloatingAnimation"
    /\ last.force = <<FALSE>>
    /\ last.pre = TRUE
    /\ last.prev.toggle
    /\ last.prev.force = Null

NoDuplicateIds ==
    \A i, j \in DOMAIN grid : i # j => nodes[grid[i]].cardId # nodes[grid[j]].cardId

IdsKept == \A k \in DOMAIN cards : cards'[k].id = cards[k].id

\* C10: no two displayed elements carry the same card id, stale insertions of
\* an earlier renderCards call included, and no step changes the id of a card
\* record.
C10_UniqueStableIds == [](NoDuplicateIds) /\ [][IdsKept]_vars

\* elements of two renderCards calls displayed together
C10_Witness ==
    \E i, j \in DOMAIN grid : NodeProj(grid[i]) # NodeProj(grid[j])

\* C11: getRandomNumber(min, max) returns an integer x with min <= x <= max
\* for every value of the random source, and every integer of min .. max is
\* returned for some value of the source.
C11_RandomInRange ==
    last.op = "getRandomNumber" =>
        /\ last.ret \in Int
        /\ last.min <= last.ret
        /\ last.ret <= last.max
        /\ \A x \in last.min .. last.max :
             \E n \in RandomSource : getRandomNumber(last.min, last.max, n) = x

\* the largest value of the source on the widest range, from a negative
\* minimum: the call returns max
C11_Witness ==
    /\ last.op = "getRandomNumber"
    /\ last.min = 0 - MaxMagnitude
    /\ last.max = MaxMagnitude
    /\ last.n = RandDen - 1
    /\ last.ret = last.max

\* some renderCards call started while insertions of an earlier call were
\* still pending: the action behind one of the two was triggered while the
\* other's timer or staggered insertion was pending
Overlapped == \E p \in DOMAIN projs : ~projs[p].clean

\* C12: overlapping re-projections resolve as last write wins: once no timer
\* is pending, the grid shows exactly the collection of the renderCards call
\* that started last, and no displayed element was made by an earlier call.
C12_LastWriteWins ==
    (Overlapped /\ timers = <<>>) =>
        /\ GridIds = ProjIds(Len(projs))
        /\ \A k \in DOMAIN grid : NodeProj(grid[k]) = Len(projs)

\* the pending callbacks that will write the grid: the staggered insertions,
\* the rest of an Add handler, the re-render of a Shuffle
GridTimers(ts) ==
    SelectSeq(ts, LAMBDA t : t.kind \in {"insert", "loading", "shuffle"})

\* the user events other than Add and Shuffle
Immediate ==
    {"toggleClick", "inspect", "mouseEnter", "close", "modalAction", "modalClick"}

\* C13 as stated: of the user events only Add leaves a continuation that
\* later writes the grid; Shuffle, Toggle, Inspect and the Dismiss events
\* leave the pending grid-writing callbacks as they were.
C13_OnlyAddDefers ==
    [][last'.op \in Immediate \cup {"shuffleClick"}
         => GridTimers(timers') = GridTimers(timers)]_vars

\* C13 amended: Add and Shuffle both defer.  Toggle, Inspect, pointer-enter
\* and the Dismiss events leave the grid and the pending grid-writing
\* callbacks as they were; an Add click and a Shuffle click leave the grid as
\* it was and add one such callback each (after LoadingMs, after ShuffleMs);
\* the grid is written only by those callbacks and the insertions they start;
\* the card records and the process-wide state are written only in the steps
\* of Inspect, Toggle, Shuffle click and the resumed Add handler.
C13_AddAndShuffleDefer ==
    [][/\ last'.op \in Immediate =>
            /\ grid' = grid
            /\ GridTimers(timers') = GridTimers(timers)
       /\ last'.op \in {"addClick", "shuffleClick"} =>
            /\ grid' = grid
            /\ Len(GridTimers(timers')) = Len(GridTimers(timers)) + 1
            /\ SubSeq(GridTimers(timers'), 1, Len(GridTimers(timers))) = GridTimers(timers)
            /\ LET t == timers'[Len(timers')]
               IN  IF last'.op = "addClick"
                   THEN t.kind = "loading" /\ t.rem = Ticks(LoadingMs)
                   ELSE t.kind = "shuffle" /\ t.rem = Ticks(ShuffleMs)
       /\ grid' # grid => last'.op \in {"insert", "addRender", "shuffleRender"}
       /\ (cards' # cards \/ clickCounter' # clickCounter
             \/ cardIdCounter' # cardIdCounter \/ isFloatingEnabled' # isFloatingEnabled)
            => last'.op \in {"inspect", "toggleClick", "shuffleClick", "addRender"}
      ]_vars

\* the re-render of a Shuffle has emptied a grid that showed cards, after an
\* Inspect
C13_Witness ==
    /\ last.op = "shuffleRender"
    /\ projs[Len(projs)].shown # <<>>
    /\ grid = <<>>
    /\ clickCounter > 0

\* C14: generateCardData(count, true) returns count cards; the i-th (0-based)
\* carries the icon and the description of a seed entry and that entry's
\* title followed by i + 1, so no two cards of one call share a title; each
\* has clickCount 0 and an id no other record ever made carries.
C14_RandomGeneration ==
    (last.op = "generateCardData" /\ last.useRandomData) =>
        /\ Len(last.ret) = last.count
        /\ \A k \in DOMAIN last.ret :
             /\ \E e \in DOMAIN cardData :
                  Triple(cards[last.ret[k]]) =
                    <<cardData[e].icon, Append(cardData[e].title, k),
                      cardData[e].description>>
             /\ cards[last.ret[k]].clickCount = 0
             /\ \A j \in DOMAIN cards :
                  j # last.ret[k] => cards[j].id # cards[last.ret[k]].id
        /\ \A i, j \in DOMAIN last.ret :
             i # j => cards[last.ret[i]].title # cards[last.ret[j]].title

\* a random generation of MaxRandomCount cards, two of them drawn from the
\* same seed entry, after another generation
C14_Witness ==
    /\ last.op = "generateCardData"
    /\ last.useRandomData
    /\ last.count = MaxRandomCount
    /\ events = MaxCalls
    /\ \E i, j \in DOMAIN last.ret :
         /\ i # j
         /\ cards[last.ret[i]].icon = cards[last.ret[j]].icon

\* the steps in which card records are created
Creating == {"shuffleClick", "addRender", "generateCardData"}

\* what every step does to the two counters
CountersStep ==
    /\ clickCounter' >= clickCounter
    /\ cardIdCounter' >= cardIdCounter
    /\ clickCounter' # clickCounter => last'.op = "inspect"
    /\ last'.op = "inspect" => clickCounter' = clickCounter + 1
    /\ Len(cards') >= Len(cards)
    /\ cardIdCounter' - cardIdCounter = Len(cards') - Len(cards)
    /\ cardIdCounter' # cardIdCounter => last'.op \in Creating
    /\ \A k \in (Len(cards) + 1) .. Len(cards') :
         cards'[k].id = <<"card-", cardIdCounter + (k - Len(cards))>>

\* C15: clickCounter and cardIdCounter never decrease; clickCounter changes
\* only in an Inspect step, which raises it by exactly 1; cardIdCounter
\* changes only in a step that creates card records, by exactly 1 per record
\* created, so that it always equals the number of records ever created.
C15_MonotonicCounters ==
    [](cardIdCounter = Len(cards)) /\ [][CountersStep]_vars

\* a Shuffle click has read back the displayed cards after an Inspect: both
\* counters have moved
C15_Witness ==
    /\ last.op = "shuffleClick"
    /\ clickCounter = 1
    /\ cardIdCounter = 2 * InitialCount

\* the step is a Dismiss: the close button, the modal action button, or a
\* click on the modal backdrop itself
DismissStep ==
    \/ last'.op \in {"close", "modalAction"}
    \/ last'.op = "modalClick" /\ last'.target = "card-modal"

\* the step is a click inside the content of the panel
ContentClickStep == last'.op = "modalClick" /\ last'.target # "card-modal"

\* the step leaves the grid, what it displays, the card records and the
\* process-wide state as they were
CardsUntouched ==
    /\ grid' = grid
    /\ Shown(nodes', grid') = Shown(nodes, grid)
    /\ cards' = cards
    /\ clickCounter' = clickCounter
    /\ cardIdCounter' = cardIdCounter
    /\ isFloatingEnabled' = isFloatingEnabled

DismissFrame ==
    /\ DismissStep => (~page'.modalShown /\ CardsUntouched)
    /\ ContentClickStep => (page'.modalShown = page.modalShown /\ CardsUntouched)

\* C16: every Dismiss (close button, modal action button, click on the
\* backdrop) leaves the detail panel hidden and the grid, every card's
\* clickCount, clickCounter, cardIdCounter and isFloatingEnabled unchanged; a
\* click inside the panel content leaves the panel as it was.
C16_DismissFrame == [][DismissFrame]_vars

\* a click on the backdrop has closed the panel an Inspect had opened
C16_Witness ==
    /\ last.op = "modalClick"
    /\ last.target = "card-modal"
    /\ ~page.modalShown
    /\ clickCounter = 1
    /\ page.modalTitle # <<>>

\* no timer is pending, the loading overlay is hidden, and no card element,
\* displayed or discarded, carries a transient class
Quiescent ==
    /\ timers = <<>>
    /\ page.overlayHidden
    /\ \A n \in DOMAIN nodes :
         nodes[n].classes \cap {"clicked", "shuffle-animation"} = {}

\* C17: with the event loop running and the user's events finite in number
\* (at most MaxLiveEvents), the page reaches a state with no pending timer, the
\* overlay hidden and no transient class left, and stays in it.
C17_Quiescence == <>[]Quiescent

\* at rest after MaxLiveEvents user events, the last one an Add whose
\* re-projection has displayed its cards
C17_Witness ==
    /\ Quiescent
    /\ events = MaxLiveEvents
    /\ projs[Len(projs)].kind = "add"
    /\ Len(grid) > InitialCount

\* an Add is busy: its click has occurred and its loading timer has not fired
AddBusy == \E i \in DOMAIN timers : timers[i].kind = "loading"

\* C18: the loading overlay is visible in every state in which an Add is
\* busy, overlapping Adds included.
C18_OverlayWhileBusy == AddBusy => ~page.overlayHidden

\* the arrangements of the elements of a sequence without repeated elements
Arrangements(s) == {t \in [DOMAIN s -> Range(s)] : Range(t) = Range(s)}

Distinct(s) == Cardinality(Range(s)) = Len(s)

\* C19: on an input of n pairwise-distinct elements, the outputs of
\* shuffleArray over all sequences of swap indices (the i-th drawn from
\* 0 .. i, i from n - 1 down to 1) are exactly the n! arrangements of the
\* input, each the output of exactly one sequence of swap indices.
C19_EveryPermutationOnce ==
    (last.op = "shuffleArray" /\ Distinct(last.input)) =>
        LET runs == shuffleArray(last.input, RandomSource)
            n == Len(last.input)
        IN  /\ \A m \in runs :
                 /\ Len(m.js) = (IF n = 0 THEN 0 ELSE n - 1)
                 /\ \A k \in DOMAIN m.js : m.js[k] \in 0 .. (n - k)
            /\ {m.shuffled : m \in runs} = Arrangements(last.input)
            /\ \A p \in Arrangements(last.input) :
                 Cardinality({m.js : m \in {r \in runs : r.shuffled = p}}) = 1
            /\ \E m \in runs : m.shuffled = last.ret /\ m.js = last.js

\* a shuffle of MaxLen distinct elements that returned them in reverse order
C19_Witness ==
    /\ last.op = "shuffleArray"
    /\ Len(last.input) = MaxLen
    /\ Distinct(last.input)
    /\ \A k \in DOMAIN last.input : last.ret[k] = last.input[MaxLen + 1 - k]

\* the sum of clickCount over the records cs[refs[1]], ..., cs[refs[k]]
RECURSIVE SumClickCount(_, _, _)
SumClickCount(cs, refs, k) ==
    IF k = 0 THEN 0 ELSE cs[refs[k]].clickCount + SumClickCount(cs, refs, k - 1)

\* the records the displayed elements' listeners hold, in display order
DisplayedCards == [k \in DOMAIN grid |-> nodes[grid[k]].listeners[1]]

ClicksAccounted ==
    /\ clickCounter = SumClickCount(cards, NewRefs(0, Len(cards)), Len(cards))
    /\ SumClickCount(cards, DisplayedCards, Len(grid)) <= clickCounter

\* a re-projection (the renderCards call of an Add or of a Shuffle) leaves
\* clickCounter as it was, no displayed card with a click, and projects
\* records without a click; every element it then inserts displays a record
\* without a click
ReprojectionResets ==
    /\ last'.op \in {"addRender", "shuffleRender"} =>
         /\ clickCounter' = clickCounter
         /\ \A k \in DOMAIN grid' :
              cards'[nodes'[grid'[k]].listeners[1]].clickCount = 0
         /\ \A k \in DOMAIN projs'[Len(projs')].cards :
              cards'[projs'[Len(projs')].cards[k]].clickCount = 0
    /\ last'.op = "insert" =>
         /\ clickCounter' = clickCounter
         /\ cards'[nodes'[grid'[Len(grid')]].listeners[1]].clickCount = 0

\* C20: clickCounter equals the sum of clickCount over all the card records
\* ever created, so the sum over the displayed cards is at most clickCounter;
\* right after an Add or Shuffle re-projection every displayed card has
\* clickCount 0 and clickCounter has kept its value.
C20_ClicksAccounted == [](ClicksAccounted) /\ [][ReprojectionResets]_vars

\* a card of a Shuffle's re-projection has just been displayed, without a
\* click, after an Inspect of a card the Shuffle discarded
C20_Witness ==
    /\ last.op = "insert"
    /\ projs[last.proj].kind = "shuffle"
    /\ clickCounter = 1
    /\ SumClickCount(cards, DisplayedCards, Len(grid)) = 0

=============================================================================
